---- MODULE Spec2Model ----
(***************************************************************************)
(* The request pipeline of the greenlight API server                       *)
(* (lets-go-further/greenlight/cmd/api): the middleware chain built by     *)
(* application.routes, the per-client rate limiter with its client map,    *)
(* mutex and sweep goroutine, the authentication and authorization         *)
(* middleware, and the metrics counters; application.serve with its signal *)
(* goroutine and graceful shutdown; and the optimistic update of           *)
(* MovieModel (internal/data).                                             *)
(*                                                                         *)
(* Time is counted in milliseconds.  A limiter's tokens are counted in     *)
(* thousandths of a token, so that elapsed-milliseconds * tokens-per-      *)
(* second is the exact refill.                                             *)
(***************************************************************************)
EXTENDS Integers, Sequences, FiniteSets, TLC

VARIABLES
    config,      \* app.config: limiter.enabled, limiter.rps, limiter.burst, cors.trustedOrigins
    now,         \* the wall clock, in milliseconds
    mu,          \* rateLimit's mutex: the task holding it, or NoTask
    clients,     \* rateLimit's map ip -> client {limiter, lastSeen}, or NoClient
    sweepPc,     \* position of the cleanup goroutine
    wakeAt,      \* earliest instant at which the cleanup goroutine's Sleep returns
    pc,          \* position of each request task in the chain
    req,         \* the request each task serves
    pass,        \* which of the two calls of next in metrics is running (1 or 2)
    stack,       \* the middleware currently active for the task, outermost first
    ctxUser,     \* the user in the request context, or NoUser
    resp,        \* the status codes written to the ResponseWriter, in order
    hdrs,        \* response headers set so far
    code,        \* metrics.Code captured by httpsnoop.CaptureMetrics
    calls,       \* per task: how often the handler, Allow() and the stores were invoked for its request
    totalRequestsReceived,
    totalResponsesSent,
    totalResponsesSentByStatus,
    lim,         \* a single limiter exercised on its own
    limLog,      \* the outcomes of the Allow() calls made on lim: <<instant, allowed>>
    mainPc,      \* position of application.serve
    sigPc,       \* position of the signal goroutine of serve
    quit,        \* the quit channel (buffer of one signal)
    srvState,    \* the http.Server: "new", "serving" or "closed"
    conns,       \* connections of the server that are not idle
    deadline,    \* the instant the context passed to Shutdown expires
    shutdownResult, \* what srv.Shutdown(ctx) returned
    ret,         \* what serve() returned
    killed,      \* the process was ended by the default action of a signal
    movies,      \* the movies table: id -> record {title, version}, or NoMovie
    editor       \* the clients of MovieModel: position, their Movie struct, the error returned

reqVars     == <<pc, req, pass, stack, ctxUser, resp, hdrs, code, calls>>
metricVars  == <<totalRequestsReceived, totalResponsesSent, totalResponsesSentByStatus>>
sweepVars   == <<sweepPc, wakeAt>>
limVars     == <<lim, limLog>>
serveVars   == <<mainPc, sigPc, quit, srvState, conns, deadline, shutdownResult, ret, killed>>
movieVars   == <<movies, editor>>
\* the variables of the request pipeline but the clock
chainVars   == <<config, mu, clients, sweepVars, reqVars, metricVars, limVars>>
vars == <<config, now, mu, clients, sweepVars, reqVars, metricVars, limVars,
          serveVars, movieVars>>

----------------------------------------------------------------------------
(* Bounds of the model *)

\* the clock of the server is advanced at most this many times
MaxTicks == 2
\* Allow() is called at most this many times on the limiter exercised alone
MaxCalls == 7
\* the clock of the limiter exercised alone is advanced until it passes this many
\* seconds
MaxSeconds == 2
\* the clock of the server with a single request task is advanced at most this
\* many times: far enough for an idle client to be swept
MaxSweepTicks == 4
\* the clock of the full chain with a single request task is advanced at most
\* this many times: far enough for a token to expire
MaxChainTicks == 1
\* the clock of the fairly scheduled server is advanced at most this many times
MaxFairTicks == 1
\* the clock of serve() is advanced by at most this many seconds: past the
\* deadline of Shutdown
MaxServeSeconds == 6
\* at most this many connections of the server are busy at once
MaxConns == 2
\* a movie is updated until its version reaches this number
MaxVersion == 4

(* Program constants *)

Minute == 60000
StatusOK == 200
StatusUnauthorized == 401
StatusForbidden == 403
StatusNotFound == 404
StatusTooManyRequests == 429
StatusInternalServerError == 500

Second == Minute \div 60
\* thousandths of a token in one token: milliseconds elapsed * tokens per second
Token == Second

Tasks == {"t1", "t2"}
NoTask == "none"
Sweeper == "sweep"
NoClient == [absent |-> TRUE]
NoUser == "nouser"
\* the zero time.Time, long before the server started
ZeroTime == 0 - 24 * 60 * Minute
AnonymousUser == "anonymous"
\* nothing has been invoked for the request yet
NoCalls == [handler |-> 0, allow |-> 0, tokenLookups |-> 0, permLookups |-> 0]

----------------------------------------------------------------------------
(* golang.org/x/time/rate: the token bucket *)

\* rate.NewLimiter(r, b): a bucket of b tokens, full
NewLimiter(r, b, t) == [limit |-> r, burst |-> b, tokens |-> b * Token, last |-> t]

Min(a, b) == IF a < b THEN a ELSE b

\* a refill that is not capped
AdvanceUncapped(l, t) ==
    LET elapsed == IF t < l.last THEN 0 ELSE t - l.last
    IN  [l EXCEPT !.tokens = l.tokens + elapsed * l.limit, !.last = t]

\* the refill: elapsed * rate more tokens, at most burst
Advance(l, t) ==
    LET elapsed == IF t < l.last THEN 0 ELSE t - l.last
    IN  [l EXCEPT !.tokens = Min(l.burst * Token, l.tokens + elapsed * l.limit),
                  !.last = t]

\* Allow(): refill, then take one token if there is one
AllowOk(l, t) == Advance(l, t).tokens >= Token

\* an Allow() that empties the bucket when it denies
AllowDrains(l, t) ==
    LET a == Advance(l, t)
    IN  IF a.tokens >= Token THEN [a EXCEPT !.tokens = a.tokens - Token]
        ELSE [a EXCEPT !.tokens = 0]

Allow(l, t) ==
    LET a == Advance(l, t)
    IN  IF a.tokens >= Token THEN [a EXCEPT !.tokens = a.tokens - Token] ELSE a

----------------------------------------------------------------------------
(* Configuration, users, tokens, routes and the requests served *)

TrustedOrigin == "https://app.example"
OtherOrigin == "https://evil.example"

\* the defaults of limiter-rps and limiter-burst exchanged
DefaultConfigSwapped ==
    [enabled |-> TRUE, rps |-> 4, burst |-> 2, trustedOrigins |-> {TrustedOrigin}]

\* the flags of main(): the defaults, and other settings of the limiter
DefaultConfig ==
    [enabled |-> TRUE, rps |-> 2, burst |-> 4, trustedOrigins |-> {TrustedOrigin}]

Configs ==
    { DefaultConfig,
      [DefaultConfig EXCEPT !.burst = 1],
      [DefaultConfig EXCEPT !.rps = 0, !.burst = 2],
      [DefaultConfig EXCEPT !.enabled = FALSE] }

IPs == {"10.0.0.1", "10.0.0.2"}
\* a RemoteAddr net.SplitHostPort rejects
BadAddr == "10.0.0.3"

\* the scope of another kind of token
ScopeWrong == "activation"
ScopeAuthentication == "authentication"
ScopeActivation == "activation"

Users ==
    [ alice |-> [activated |-> TRUE,  permissions |-> {"movies:read"}],
      bob   |-> [activated |-> TRUE,  permissions |-> {}],
      carol |-> [activated |-> FALSE, permissions |-> {"movies:read"}] ]

TokAlice == "ALICEALICEALICEALICEALICEA"
TokBob == "BOBBOBBOBBOBBOBBOBBOBBOBBO"
TokCarol == "CAROLCAROLCAROLCAROLCAROLC"
TokUnknown == "UNKNOWNUNKNOWNUNKNOWNUNKNO"
TokExpiring == "EXPIRINGEXPIRINGEXPIRINGEX"
TokActivation == "ACTIVATIONACTIVATIONACTIVA"

\* the tokens table: plaintext (standing for its hash), owner, scope, expiry
TokenStore ==
    { [plaintext |-> TokAlice, user |-> "alice", scope |-> "authentication", expiry |-> 24 * 60 * Minute],
      [plaintext |-> TokBob,   user |-> "bob",   scope |-> "authentication", expiry |-> 24 * 60 * Minute],
      [plaintext |-> TokCarol, user |-> "carol", scope |-> "authentication", expiry |-> 24 * 60 * Minute],
      [plaintext |-> TokExpiring,   user |-> "alice", scope |-> "authentication", expiry |-> Minute],
      [plaintext |-> TokActivation, user |-> "alice", scope |-> "activation", expiry |-> 24 * 60 * Minute] }

\* an Authorization header, as the fields strings.Split(h, " ") yields
NoHeader == <<"">>
Bearer(tok) == <<"Bearer", tok>>

\* router.HandlerFunc registrations of routes()
Routes ==
    [ healthcheck |-> [found |-> TRUE,  gated |-> FALSE, code |-> ""],
      listMovies  |-> [found |-> TRUE,  gated |-> TRUE,  code |-> "movies:read"],
      createMovie |-> [found |-> TRUE,  gated |-> TRUE,  code |-> "movies:write"],
      unknown     |-> [found |-> FALSE, gated |-> FALSE, code |-> ""] ]

PlainRequest ==
    [addr |-> "10.0.0.1", origin |-> "", preflight |-> FALSE,
     auth |-> NoHeader, route |-> "healthcheck"]

Requests ==
    { PlainRequest,
      [PlainRequest EXCEPT !.addr = "10.0.0.2"],
      [PlainRequest EXCEPT !.addr = BadAddr],
      [PlainRequest EXCEPT !.origin = TrustedOrigin, !.preflight = TRUE],
      [PlainRequest EXCEPT !.origin = OtherOrigin, !.preflight = TRUE],
      [PlainRequest EXCEPT !.route = "unknown"],
      [PlainRequest EXCEPT !.route = "listMovies"],
      [PlainRequest EXCEPT !.route = "listMovies", !.auth = <<"Basic", "abc">>],
      [PlainRequest EXCEPT !.route = "listMovies", !.auth = Bearer(TokUnknown)],
      [PlainRequest EXCEPT !.route = "listMovies", !.auth = Bearer(TokAlice)],
      [PlainRequest EXCEPT !.route = "createMovie", !.auth = Bearer(TokAlice)],
      [PlainRequest EXCEPT !.route = "listMovies", !.auth = Bearer(TokBob)],
      [PlainRequest EXCEPT !.route = "listMovies", !.auth = Bearer(TokCarol)] }

\* further Authorization headers: one field, three fields, a lower-case scheme,
\* a token of the wrong length, an expiring token and an activation token; and
\* simple requests that carry an Origin
WideRequests ==
    Requests \cup
    { [PlainRequest EXCEPT !.route = "listMovies", !.auth = <<"Bearer">>],
      [PlainRequest EXCEPT !.route = "listMovies", !.auth = <<"Bearer", TokAlice, "x">>],
      [PlainRequest EXCEPT !.route = "listMovies", !.auth = <<"bearer", TokAlice>>],
      [PlainRequest EXCEPT !.route = "listMovies", !.auth = Bearer("abc")],
      [PlainRequest EXCEPT !.route = "listMovies", !.auth = Bearer(TokExpiring)],
      [PlainRequest EXCEPT !.route = "listMovies", !.auth = Bearer(TokActivation)],
      [PlainRequest EXCEPT !.route = "createMovie"],
      [PlainRequest EXCEPT !.route = "createMovie", !.auth = Bearer(TokCarol)],
      [PlainRequest EXCEPT !.origin = TrustedOrigin],
      [PlainRequest EXCEPT !.origin = OtherOrigin] }

NoRequest == [addr |-> "", origin |-> "", preflight |-> FALSE, auth |-> NoHeader, route |-> ""]

----------------------------------------------------------------------------
(* The chain of routes(): metrics(recoverPanic(enableCORS(rateLimit(authenticate(router))))) *)

\* rateLimit wrapped around enableCORS
ChainSwapped == <<"metrics", "recoverPanic", "rateLimit", "enableCORS", "authenticate", "router">>

Chain == <<"metrics", "recoverPanic", "enableCORS", "rateLimit", "authenticate", "router">>

\* the handler a middleware was given as next
NextOf(stage) ==
    LET i == CHOOSE k \in 1..Len(Chain) : Chain[k] = stage IN Chain[i + 1]

\* next.ServeHTTP(w, r) called from the middleware `stage`
CallNext(t, stage) ==
    /\ pc' = [pc EXCEPT ![t] = NextOf(stage)]
    /\ stack' = [stack EXCEPT ![t] = Append(@, NextOf(stage))]

\* a route-level wrapper or the handler is called
CallInner(t, inner) ==
    /\ pc' = [pc EXCEPT ![t] = inner]
    /\ stack' = [stack EXCEPT ![t] = Append(@, inner)]

\* the active middleware down to and including `stage`
Unwind(st, stage) ==
    LET i == CHOOSE k \in 1..Len(st) : st[k] = stage IN SubSeq(st, 1, i)

\* the middleware returns, and so does every middleware between it and the
\* outermost one
Return(t) ==
    /\ pc' = [pc EXCEPT ![t] = "returned"]
    /\ stack' = [stack EXCEPT ![t] = <<Head(@)>>]

\* a panic unwinds to the deferred function of recoverPanic; with no recoverPanic
\* around it, it ends the task
Panic(t) ==
    IF \E k \in 1..Len(stack[t]) : stack[t][k] = "recoverPanic"
    THEN /\ pc' = [pc EXCEPT ![t] = "panic"]
         /\ stack' = [stack EXCEPT ![t] = Unwind(@, "recoverPanic")]
    ELSE /\ pc' = [pc EXCEPT ![t] = "crashed"]
         /\ stack' = [stack EXCEPT ![t] = <<>>]

\* errorResponse / writeJSON: one more status written to the ResponseWriter
Write(t, status) == resp' = [resp EXCEPT ![t] = Append(@, status)]

\* the status the client receives: the first one written
Sent(t) == IF resp[t] = <<>> THEN 0 ELSE Head(resp[t])

----------------------------------------------------------------------------
(* application.serve: signals, results *)

Signals == {"SIGINT", "SIGTERM"}

\* signal.Notify(quit, syscall.SIGINT)
Notified == {"SIGINT"}

NoResult == "none"
NoError == "nil"
ListenError == "listen error"
DeadlineExceeded == "context deadline exceeded"
CloseError == "listener close error"

----------------------------------------------------------------------------
(* MovieModel: the movies table and its clients *)

Editors == {"e1", "e2"}
MovieIDs == {1}
Titles == {"Casablanca", "Moana"}
NoMovie == [absent |-> TRUE]
ErrRecordNotFound == "record out found"
ErrEditConflict == "edit conflict"
DBError == "database error"

\* the record the table holds at the start: INSERT gives version 1
FirstMovie == [title |-> "Casablanca", version |-> 1]

\* a client that holds no Movie struct; `read` is the version its last Get read
IdleEditor == [pc |-> "idle", id |-> 0, movie |-> NoMovie, read |-> 0, err |-> NoResult]

----------------------------------------------------------------------------
(* The initial state: the chain is built, the cleanup goroutine sleeps *)

InitServer ==
    /\ mu = NoTask
    /\ clients = [ip \in IPs |-> NoClient]
    /\ sweepPc = "sleep"
    /\ wakeAt = Minute
    /\ pc = [t \in Tasks |-> "idle"]
    /\ req = [t \in Tasks |-> NoRequest]
    /\ pass = [t \in Tasks |-> 1]
    /\ stack = [t \in Tasks |-> <<>>]
    /\ ctxUser = [t \in Tasks |-> NoUser]
    /\ resp = [t \in Tasks |-> <<>>]
    /\ hdrs = [t \in Tasks |-> {}]
    /\ code = [t \in Tasks |-> 0]
    /\ calls = [t \in Tasks |-> NoCalls]
    /\ totalRequestsReceived = 0
    /\ totalResponsesSent = 0
    /\ totalResponsesSentByStatus = <<>>
    /\ mainPc = "start"
    /\ sigPc = "notify"
    /\ quit = <<>>
    /\ srvState = "new"
    /\ conns = 0
    /\ deadline = 0
    /\ shutdownResult = NoResult
    /\ ret = NoResult
    /\ killed = FALSE
    /\ movies = [id \in MovieIDs |-> FirstMovie]
    /\ editor = [e \in Editors |-> IdleEditor]

Init ==
    /\ config \in Configs
    /\ now = 0
    /\ InitServer
    /\ lim = NewLimiter(0, 0, 0)
    /\ limLog = <<>>

----------------------------------------------------------------------------
(* The clock *)

\* the clock of the server advances, a minute at a time
Tick ==
    /\ now < MaxTicks * Minute
    /\ now' = now + Minute
    /\ UNCHANGED <<config, mu, clients, sweepVars, reqVars, metricVars, limVars, serveVars, movieVars>>

----------------------------------------------------------------------------
(* metrics *)

\* the server hands a request to the chain
Serve(t) ==
    /\ pc[t] = "idle"
    /\ \E r \in Requests : req' = [req EXCEPT ![t] = r]
    /\ pc' = [pc EXCEPT ![t] = "metrics"]
    /\ stack' = [stack EXCEPT ![t] = <<"metrics">>]
    /\ UNCHANGED <<config, now, mu, clients, sweepVars, pass, ctxUser, resp, hdrs,
                   code, calls, metricVars, limVars, serveVars, movieVars>>

\* totalRequestsReceived.Add(1), then httpsnoop.CaptureMetrics(next, w, r) calls next
Metrics(t) ==
    /\ pc[t] = "metrics"
    /\ totalRequestsReceived' = totalRequestsReceived + 1
    /\ pass' = [pass EXCEPT ![t] = 1]
    /\ CallNext(t, "metrics")
    /\ UNCHANGED <<config, now, mu, clients, sweepVars, req, ctxUser, resp, hdrs,
                   code, calls, totalResponsesSent, totalResponsesSentByStatus, limVars, serveVars, movieVars>>

\* CaptureMetrics has returned the metrics of the first call; next.ServeHTTP(w, r)
\* is called again, with the request metrics was given
MetricsCallAgain(t) ==
    /\ pc[t] = "returned"
    /\ pass[t] = 1
    /\ code' = [code EXCEPT ![t] = IF resp[t] = <<>> THEN StatusOK ELSE Head(resp[t])]
    /\ pass' = [pass EXCEPT ![t] = 2]
    /\ ctxUser' = [ctxUser EXCEPT ![t] = NoUser]
    /\ CallNext(t, "metrics")
    /\ UNCHANGED <<config, now, mu, clients, sweepVars, req, resp, hdrs, calls,
                   metricVars, limVars, serveVars, movieVars>>

\* the count of the key set to one, not added to
AddToSets(m, k) ==
    [x \in DOMAIN m \cup {k} |-> IF x = k THEN 1 ELSE m[x]]

\* expvar.Map.Add(key, 1)
AddTo(m, k) ==
    IF k \in DOMAIN m THEN [m EXCEPT ![k] = @ + 1]
    ELSE [x \in DOMAIN m \cup {k} |-> IF x = k THEN 1 ELSE m[x]]

\* a response counted for each run of the chain
MetricsDonePerRun(t) ==
    /\ pc[t] = "returned"
    /\ pass[t] = 2
    /\ totalResponsesSent' = totalResponsesSent + pass[t]
    /\ totalResponsesSentByStatus' = AddTo(totalResponsesSentByStatus, code[t])
    /\ pc' = [pc EXCEPT ![t] = "done"]
    /\ stack' = [stack EXCEPT ![t] = <<>>]
    /\ UNCHANGED <<config, now, mu, clients, sweepVars, req, pass, ctxUser, resp, hdrs,
                   code, calls, totalRequestsReceived, limVars, serveVars, movieVars>>

\* totalResponsesSent.Add(1); totalResponsesSentByStatus.Add(Itoa(metrics.Code), 1)
MetricsDone(t) ==
    /\ pc[t] = "returned"
    /\ pass[t] = 2
    /\ totalResponsesSent' = totalResponsesSent + 1
    /\ totalResponsesSentByStatus' = AddTo(totalResponsesSentByStatus, code[t])
    /\ pc' = [pc EXCEPT ![t] = "done"]
    /\ stack' = [stack EXCEPT ![t] = <<>>]
    /\ UNCHANGED <<config, now, mu, clients, sweepVars, req, pass, ctxUser, resp, hdrs,
                   code, calls, totalRequestsReceived, limVars, serveVars, movieVars>>

----------------------------------------------------------------------------
(* recoverPanic *)

\* the deferred function is registered and next is called
RecoverPanic(t) ==
    /\ pc[t] = "recoverPanic"
    /\ CallNext(t, "recoverPanic")
    /\ UNCHANGED <<config, now, mu, clients, sweepVars, req, pass, ctxUser, resp, hdrs,
                   code, calls, metricVars, limVars, serveVars, movieVars>>

\* the deferred function recovers a panic: Connection: close and a 500
Recovered(t) ==
    /\ pc[t] = "panic"
    /\ hdrs' = [hdrs EXCEPT ![t] = @ \cup {"Connection: close"}]
    /\ Write(t, StatusInternalServerError)
    /\ Return(t)
    /\ UNCHANGED <<config, now, mu, clients, sweepVars, req, pass, ctxUser,
                   code, calls, metricVars, limVars, serveVars, movieVars>>

----------------------------------------------------------------------------
(* enableCORS *)

\* any Origin taken for a trusted one
TrustedAny(r) == r.origin # ""

\* origin != "" && len(trustedOrigins) != 0 && origin == trustedOrigins[i]
Trusted(r) ==
    /\ r.origin # ""
    /\ config.trustedOrigins # {}
    /\ r.origin \in config.trustedOrigins

\* the preflight branch without its return
EnableCORSFallsThrough(t) ==
    /\ pc[t] = "enableCORS"
    /\ hdrs' = [hdrs EXCEPT ![t] = @ \cup {"Vary: Origin"} \cup
                    (IF Trusted(req[t]) THEN {"Access-Control-Allow-Origin"} ELSE {}) \cup
                    (IF Trusted(req[t]) /\ req[t].preflight
                     THEN {"Access-Control-Allow-Methods", "Access-Control-Allow-Headers"}
                     ELSE {})]
    /\ resp' = [resp EXCEPT ![t] = IF Trusted(req[t]) /\ req[t].preflight
                                   THEN Append(@, StatusOK) ELSE @]
    /\ CallNext(t, "enableCORS")
    /\ UNCHANGED <<config, now, mu, clients, sweepVars, req, pass, ctxUser,
                   code, calls, metricVars, limVars, serveVars, movieVars>>

EnableCORS(t) ==
    /\ pc[t] = "enableCORS"
    /\ IF Trusted(req[t]) /\ req[t].preflight
       THEN /\ hdrs' = [hdrs EXCEPT ![t] = @ \cup {"Vary: Origin",
                            "Access-Control-Allow-Origin",
                            "Access-Control-Allow-Methods",
                            "Access-Control-Allow-Headers"}]
            /\ Write(t, StatusOK)
            /\ Return(t)
       ELSE /\ hdrs' = [hdrs EXCEPT ![t] = @ \cup {"Vary: Origin"} \cup
                            (IF Trusted(req[t]) THEN {"Access-Control-Allow-Origin"} ELSE {})]
            /\ CallNext(t, "enableCORS")
            /\ UNCHANGED resp
    /\ UNCHANGED <<config, now, mu, clients, sweepVars, req, pass, ctxUser,
                   code, calls, metricVars, limVars, serveVars, movieVars>>

----------------------------------------------------------------------------
(* rateLimit *)

\* net.SplitHostPort(r.RemoteAddr) succeeds
AddrOk(r) == r.addr \in IPs

\* a Lock() that never blocks
MuFreeAlways == TRUE

\* mu.Lock() can return
MuFree == mu = NoTask

\* rate and burst passed in each other's place
NewClientSwapped == [limiter |-> NewLimiter(config.burst, config.rps, now), lastSeen |-> ZeroTime]

\* the client added for an unseen address
NewClient == [limiter |-> NewLimiter(config.rps, config.burst, now), lastSeen |-> ZeroTime]

\* the limiter applied whatever the configuration says
RateLimitAlways(t) ==
    /\ pc[t] = "rateLimit"
    /\ IF ~AddrOk(req[t])
       THEN Write(t, StatusInternalServerError) /\ Return(t)
       ELSE /\ pc' = [pc EXCEPT ![t] = "rlLock"]
            /\ UNCHANGED <<stack, resp>>
    /\ UNCHANGED <<config, now, mu, clients, sweepVars, req, pass, ctxUser, hdrs,
                   code, calls, metricVars, limVars, serveVars, movieVars>>

\* if app.config.limiter.enabled { ip, _, err := net.SplitHostPort(r.RemoteAddr) ... }
RateLimit(t) ==
    /\ pc[t] = "rateLimit"
    /\ IF ~config.enabled
       THEN CallNext(t, "rateLimit") /\ UNCHANGED resp
       ELSE IF ~AddrOk(req[t])
       THEN Write(t, StatusInternalServerError) /\ Return(t)
       ELSE /\ pc' = [pc EXCEPT ![t] = "rlLock"]
            /\ UNCHANGED <<stack, resp>>
    /\ UNCHANGED <<config, now, mu, clients, sweepVars, req, pass, ctxUser, hdrs,
                   code, calls, metricVars, limVars, serveVars, movieVars>>

\* mu.Lock()
RlLock(t) ==
    /\ pc[t] = "rlLock"
    /\ MuFree
    /\ mu' = t
    /\ pc' = [pc EXCEPT ![t] = "rlFind"]
    /\ UNCHANGED <<config, now, clients, sweepVars, req, pass, stack, ctxUser, resp,
                   hdrs, code, calls, metricVars, limVars, serveVars, movieVars>>

\* a fresh client stored on every request, found or not
RlFindReplaces(t) ==
    /\ pc[t] = "rlFind"
    /\ clients' = [clients EXCEPT ![req[t].addr] = NewClient]
    /\ pc' = [pc EXCEPT ![t] = "rlSeen"]
    /\ UNCHANGED <<config, now, mu, sweepVars, req, pass, stack, ctxUser, resp,
                   hdrs, code, calls, metricVars, limVars, serveVars, movieVars>>

\* an unseen address stored in a map of its own, the other clients dropped
RlFindFreshMap(t) ==
    /\ pc[t] = "rlFind"
    /\ clients' = IF clients[req[t].addr] = NoClient
                  THEN [ip \in IPs |-> IF ip = req[t].addr THEN NewClient ELSE NoClient]
                  ELSE clients
    /\ pc' = [pc EXCEPT ![t] = "rlSeen"]
    /\ UNCHANGED <<config, now, mu, sweepVars, req, pass, stack, ctxUser, resp,
                   hdrs, code, calls, metricVars, limVars, serveVars, movieVars>>

\* if _, found := clients[ip]; !found { clients[ip] = &client{limiter: rate.NewLimiter(...)} }
RlFind(t) ==
    /\ pc[t] = "rlFind"
    /\ clients' = IF clients[req[t].addr] = NoClient
                  THEN [clients EXCEPT ![req[t].addr] = NewClient]
                  ELSE clients
    /\ pc' = [pc EXCEPT ![t] = "rlSeen"]
    /\ UNCHANGED <<config, now, mu, sweepVars, req, pass, stack, ctxUser, resp,
                   hdrs, code, calls, metricVars, limVars, serveVars, movieVars>>

\* clients[ip].lastSeen = time.Now(); a nil map entry panics
RlSeen(t) ==
    /\ pc[t] = "rlSeen"
    /\ IF clients[req[t].addr] = NoClient
       THEN Panic(t) /\ UNCHANGED clients
       ELSE /\ clients' = [clients EXCEPT ![req[t].addr].lastSeen = now]
            /\ pc' = [pc EXCEPT ![t] = "rlAllow"]
            /\ UNCHANGED stack
    /\ UNCHANGED <<config, now, mu, sweepVars, req, pass, ctxUser, resp,
                   hdrs, code, calls, metricVars, limVars, serveVars, movieVars>>

\* if !clients[ip].limiter.Allow() { ... }
RlAllow(t) ==
    /\ pc[t] = "rlAllow"
    /\ IF clients[req[t].addr] = NoClient
       THEN Panic(t) /\ UNCHANGED <<clients, calls>>
       ELSE LET l == clients[req[t].addr].limiter IN
            /\ clients' = [clients EXCEPT ![req[t].addr].limiter = Allow(l, now)]
            /\ calls' = [calls EXCEPT ![t].allow = @ + 1]
            /\ pc' = [pc EXCEPT ![t] = IF AllowOk(l, now) THEN "rlAdmit" ELSE "rlDeny"]
            /\ UNCHANGED stack
    /\ UNCHANGED <<config, now, mu, sweepVars, req, pass, ctxUser, resp,
                   hdrs, code, metricVars, limVars, serveVars, movieVars>>

\* the denied path without its Unlock
RlDenyLocked(t) ==
    /\ pc[t] = "rlDeny"
    /\ pc' = [pc EXCEPT ![t] = "rlExceeded"]
    /\ UNCHANGED <<config, now, mu, clients, sweepVars, req, pass, stack, ctxUser, resp,
                   hdrs, code, calls, metricVars, limVars, serveVars, movieVars>>

\* mu.Unlock() on the denied path
RlDeny(t) ==
    /\ pc[t] = "rlDeny"
    /\ mu' = NoTask
    /\ pc' = [pc EXCEPT ![t] = "rlExceeded"]
    /\ UNCHANGED <<config, now, clients, sweepVars, req, pass, stack, ctxUser, resp,
                   hdrs, code, calls, metricVars, limVars, serveVars, movieVars>>

\* app.rateLimitExceededResponse(w, r); return
RlExceeded(t) ==
    /\ pc[t] = "rlExceeded"
    /\ Write(t, StatusTooManyRequests)
    /\ Return(t)
    /\ UNCHANGED <<config, now, mu, clients, sweepVars, req, pass, ctxUser,
                   hdrs, code, calls, metricVars, limVars, serveVars, movieVars>>

\* mu.Unlock() on the admitted path, then next.ServeHTTP(w, r)
RlAdmit(t) ==
    /\ pc[t] = "rlAdmit"
    /\ mu' = NoTask
    /\ CallNext(t, "rateLimit")
    /\ UNCHANGED <<config, now, clients, sweepVars, req, pass, ctxUser, resp,
                   hdrs, code, calls, metricVars, limVars, serveVars, movieVars>>

----------------------------------------------------------------------------
(* The cleanup goroutine of rateLimit *)

\* time.Sleep(time.Minute) returns
SweepWake ==
    /\ sweepPc = "sleep"
    /\ now >= wakeAt
    /\ sweepPc' = "lock"
    /\ UNCHANGED <<config, now, mu, clients, wakeAt, reqVars, metricVars, limVars, serveVars, movieVars>>

\* mu.Lock()
SweepLock ==
    /\ sweepPc = "lock"
    /\ MuFree
    /\ mu' = Sweeper
    /\ sweepPc' = "scan"
    /\ UNCHANGED <<config, now, clients, wakeAt, reqVars, metricVars, limVars, serveVars, movieVars>>

\* an entry swept as soon as it is three minutes old
StaleAtThree(c) == now - c.lastSeen >= 3 * Minute

\* time.Since(client.lastSeen) > 3*time.Minute
Stale(c) == now - c.lastSeen > 3 * Minute

\* for ip, client := range clients { if stale { delete(clients, ip) } }
SweepScan ==
    /\ sweepPc = "scan"
    /\ clients' = [ip \in IPs |->
                     IF clients[ip] # NoClient /\ Stale(clients[ip])
                     THEN NoClient ELSE clients[ip]]
    /\ sweepPc' = "unlock"
    /\ UNCHANGED <<config, now, mu, wakeAt, reqVars, metricVars, limVars, serveVars, movieVars>>

\* the loop sleeps again with the mutex still held
SweepUnlockKeeps ==
    /\ sweepPc = "unlock"
    /\ sweepPc' = "sleep"
    /\ wakeAt' = now + Minute
    /\ UNCHANGED <<config, now, mu, clients, reqVars, metricVars, limVars, serveVars, movieVars>>

\* mu.Unlock(), and the loop sleeps again
SweepUnlock ==
    /\ sweepPc = "unlock"
    /\ mu' = NoTask
    /\ sweepPc' = "sleep"
    /\ wakeAt' = now + Minute
    /\ UNCHANGED <<config, now, clients, reqVars, metricVars, limVars, serveVars, movieVars>>

----------------------------------------------------------------------------
(* authenticate *)

\* data.ValidateTokenPlaintext: the token is 26 bytes long
ValidTokenPlaintext(tok) == Len(tok) = 26

\* UserModel.GetForToken(scope, plaintext): the owners of the matching live tokens
GetForToken(scope, tok) ==
    { k.user : k \in { k \in TokenStore :
                         k.plaintext = tok /\ k.scope = scope /\ k.expiry > now } }

\* no branch for a request without credentials
NoCredentialsNever(h) == FALSE

\* authorizationHeader == ""
NoCredentials(h) == h = NoHeader

\* the scheme of the header left unchecked
MalformedLengthOnly(h) == Len(h) # 2

\* len(headerParts) != 2 || headerParts[0] != "Bearer"
Malformed(h) == Len(h) # 2 \/ h[1] # "Bearer"

\* the lookup found no record: an invalid-token response, exactly as for a
\* malformed header
LookupMissNotFound(t) == Write(t, StatusNotFound) /\ Return(t)
LookupMiss(t) == Write(t, StatusUnauthorized) /\ Return(t)

Authenticate(t) ==
    /\ pc[t] = "authenticate"
    /\ hdrs' = [hdrs EXCEPT ![t] = @ \cup {"Vary: Authorization"}]
    /\ LET h == req[t].auth IN
       IF NoCredentials(h)
       THEN /\ ctxUser' = [ctxUser EXCEPT ![t] = AnonymousUser]
            /\ CallNext(t, "authenticate")
            /\ UNCHANGED <<resp, calls>>
       ELSE IF Malformed(h)
       THEN Write(t, StatusUnauthorized) /\ Return(t) /\ UNCHANGED <<ctxUser, calls>>
       ELSE IF ~ValidTokenPlaintext(h[2])
       THEN Write(t, StatusUnauthorized) /\ Return(t) /\ UNCHANGED <<ctxUser, calls>>
       ELSE /\ calls' = [calls EXCEPT ![t].tokenLookups = @ + 1]
            /\ \E dbErr \in BOOLEAN :
              IF dbErr
              THEN Write(t, StatusInternalServerError) /\ Return(t) /\ UNCHANGED ctxUser
              ELSE IF GetForToken(ScopeAuthentication, h[2]) = {}
              THEN LookupMiss(t) /\ UNCHANGED ctxUser
              ELSE /\ \E u \in GetForToken(ScopeAuthentication, h[2]) :
                        ctxUser' = [ctxUser EXCEPT ![t] = u]
                   /\ CallNext(t, "authenticate")
                   /\ UNCHANGED resp
    /\ UNCHANGED <<config, now, mu, clients, sweepVars, req, pass,
                   code, metricVars, limVars, serveVars, movieVars>>

----------------------------------------------------------------------------
(* The router, the route-level wrappers and the handler *)

\* the registered handler function is called
CallHandler(t) ==
    /\ CallInner(t, "handler")
    /\ calls' = [calls EXCEPT ![t].handler = @ + 1]

\* httprouter dispatch: NotFound, a plain handler, or requirePermission(code, handler)
Router(t) ==
    /\ pc[t] = "router"
    /\ LET rt == Routes[req[t].route] IN
       IF ~rt.found
       THEN Write(t, StatusNotFound) /\ Return(t) /\ UNCHANGED calls
       ELSE IF rt.gated
       THEN CallInner(t, "requireAuthenticatedUser") /\ UNCHANGED <<resp, calls>>
       ELSE CallHandler(t) /\ UNCHANGED resp
    /\ UNCHANGED <<config, now, mu, clients, sweepVars, req, pass, ctxUser,
                   hdrs, code, metricVars, limVars, serveVars, movieVars>>

\* contextGetUser panics when the request context holds no user
RequireAuthenticatedUser(t) ==
    /\ pc[t] = "requireAuthenticatedUser"
    /\ IF ctxUser[t] = NoUser
       THEN Panic(t) /\ UNCHANGED resp
       ELSE IF ctxUser[t] = AnonymousUser
       THEN Write(t, StatusUnauthorized) /\ Return(t)
       ELSE CallInner(t, "requireActivatedUser") /\ UNCHANGED resp
    /\ UNCHANGED <<config, now, mu, clients, sweepVars, req, pass, ctxUser,
                   hdrs, code, calls, metricVars, limVars, serveVars, movieVars>>

\* an inactive account answered as if it carried no credentials
RequireActivatedUserUnauthorized(t) ==
    /\ pc[t] = "requireActivatedUser"
    /\ IF ctxUser[t] \notin DOMAIN Users
       THEN Panic(t) /\ UNCHANGED resp
       ELSE IF ~Users[ctxUser[t]].activated
       THEN Write(t, StatusUnauthorized) /\ Return(t)
       ELSE CallInner(t, "requirePermission") /\ UNCHANGED resp
    /\ UNCHANGED <<config, now, mu, clients, sweepVars, req, pass, ctxUser,
                   hdrs, code, calls, metricVars, limVars, serveVars, movieVars>>

RequireActivatedUser(t) ==
    /\ pc[t] = "requireActivatedUser"
    /\ IF ctxUser[t] \notin DOMAIN Users
       THEN Panic(t) /\ UNCHANGED resp
       ELSE IF ~Users[ctxUser[t]].activated
       THEN Write(t, StatusForbidden) /\ Return(t)
       ELSE CallInner(t, "requirePermission") /\ UNCHANGED resp
    /\ UNCHANGED <<config, now, mu, clients, sweepVars, req, pass, ctxUser,
                   hdrs, code, calls, metricVars, limVars, serveVars, movieVars>>

\* permissions, err := GetAllForUser(user.ID); on err the 500 is written and the
\* function carries on with the nil permissions
RequirePermission(t) ==
    /\ pc[t] = "requirePermission"
    /\ IF ctxUser[t] \notin DOMAIN Users
       THEN Panic(t) /\ UNCHANGED <<resp, calls>>
       ELSE \E err \in BOOLEAN :
              LET permissions == IF err THEN {} ELSE Users[ctxUser[t]].permissions
                  written == IF err THEN Append(resp[t], StatusInternalServerError)
                             ELSE resp[t]
                  permitted == Routes[req[t].route].code \in permissions
              IN  /\ calls' = [calls EXCEPT ![t].permLookups = @ + 1,
                                            ![t].handler = @ + (IF permitted THEN 1 ELSE 0)]
                  /\ IF ~permitted
                     THEN /\ resp' = [resp EXCEPT ![t] = Append(written, StatusForbidden)]
                          /\ Return(t)
                     ELSE /\ resp' = [resp EXCEPT ![t] = written]
                          /\ CallInner(t, "handler")
    /\ UNCHANGED <<config, now, mu, clients, sweepVars, req, pass, ctxUser,
                   hdrs, code, metricVars, limVars, serveVars, movieVars>>

\* the resource handler runs: it answers, or it panics
Handler(t) ==
    /\ pc[t] = "handler"
    /\ \E outcome \in {"ok", "panic"} :
         IF outcome = "ok"
         THEN Write(t, StatusOK) /\ Return(t)
         ELSE Panic(t) /\ UNCHANGED resp
    /\ UNCHANGED <<config, now, mu, clients, sweepVars, req, pass, ctxUser,
                   hdrs, code, calls, metricVars, limVars, serveVars, movieVars>>

----------------------------------------------------------------------------
(* The server: request tasks, the cleanup goroutine and the clock *)

Next ==
    \/ \E t \in Tasks :
         \/ Serve(t)
         \/ Metrics(t)
         \/ MetricsCallAgain(t)
         \/ MetricsDone(t)
         \/ RecoverPanic(t)
         \/ Recovered(t)
         \/ EnableCORS(t)
         \/ RateLimit(t)
         \/ RlLock(t)
         \/ RlFind(t)
         \/ RlSeen(t)
         \/ RlAllow(t)
         \/ RlDeny(t)
         \/ RlExceeded(t)
         \/ RlAdmit(t)
         \/ Authenticate(t)
         \/ Router(t)
         \/ RequireAuthenticatedUser(t)
         \/ RequireActivatedUser(t)
         \/ RequirePermission(t)
         \/ Handler(t)

Spec == Init /\ [][Next]_vars

----------------------------------------------------------------------------
(* rateLimit on its own: the middleware wrapped around a handler that answers *)
(* 200, served by looping tasks, with the cleanup goroutine and the clock     *)

ServeRateLimit(t) ==
    /\ pc[t] = "idle"
    /\ \E a \in IPs : req' = [req EXCEPT ![t] = [PlainRequest EXCEPT !.addr = a]]
    /\ pc' = [pc EXCEPT ![t] = "rateLimit"]
    /\ stack' = [stack EXCEPT ![t] = <<"rateLimit">>]
    /\ UNCHANGED <<config, now, mu, clients, sweepVars, pass, ctxUser, resp, hdrs,
                   code, calls, metricVars, limVars, serveVars, movieVars>>

\* the handler rateLimit was given as next runs
StubNext(t) ==
    /\ pc[t] = NextOf("rateLimit")
    /\ calls' = [calls EXCEPT ![t].handler = @ + 1]
    /\ Write(t, StatusOK)
    /\ Return(t)
    /\ UNCHANGED <<config, now, mu, clients, sweepVars, req, pass, ctxUser, hdrs,
                   code, metricVars, limVars, serveVars, movieVars>>

\* rateLimit has returned to the server; the task is ready for a new request with
\* a new ResponseWriter
StubReturned(t) ==
    /\ pc[t] = "returned"
    /\ pc' = [pc EXCEPT ![t] = "idle"]
    /\ stack' = [stack EXCEPT ![t] = <<>>]
    /\ req' = [req EXCEPT ![t] = NoRequest]
    /\ resp' = [resp EXCEPT ![t] = <<>>]
    /\ calls' = [calls EXCEPT ![t] = NoCalls]
    /\ UNCHANGED <<config, now, mu, clients, sweepVars, pass, ctxUser, hdrs,
                   code, metricVars, limVars, serveVars, movieVars>>

NextRegistry ==
    \/ Tick
    \/ SweepWake
    \/ SweepLock
    \/ SweepScan
    \/ SweepUnlock
    \/ \E t \in Tasks :
         \/ ServeRateLimit(t)
         \/ RateLimit(t)
         \/ RlLock(t)
         \/ RlFind(t)
         \/ RlSeen(t)
         \/ RlAllow(t)
         \/ RlDeny(t)
         \/ RlExceeded(t)
         \/ RlAdmit(t)
         \/ StubNext(t)
         \/ StubReturned(t)

SpecRegistry == Init /\ [][NextRegistry]_vars

----------------------------------------------------------------------------
(* One limiter on its own: the limiter rateLimit creates for a client, called *)
(* at instants of a clock that advances in fractions of a second              *)

LimSteps == {Second \div 4, Second \div 2, Minute}

InitLimiter ==
    /\ config \in {c \in Configs : c.enabled}
    /\ now = 0
    /\ InitServer
    /\ lim = NewClient.limiter
    /\ limLog = <<>>

\* one call of limiter.Allow()
LimAllow ==
    /\ Len(limLog) < MaxCalls
    /\ lim' = Allow(lim, now)
    /\ limLog' = Append(limLog, [at |-> now, ok |-> AllowOk(lim, now)])
    /\ UNCHANGED <<config, now, mu, clients, sweepVars, reqVars, metricVars, serveVars, movieVars>>

LimTick ==
    /\ now < MaxSeconds * Second
    /\ \E d \in LimSteps : now' = now + d
    /\ UNCHANGED <<config, mu, clients, sweepVars, reqVars, metricVars, limVars, serveVars, movieVars>>

NextLimiter == LimAllow \/ LimTick

SpecLimiter == InitLimiter /\ [][NextLimiter]_vars

----------------------------------------------------------------------------
(* The full chain serving one request task, with a clock and with every kind *)
(* of Authorization header                                                   *)

ChainTasks == {"t1"}

ServeAny(t) ==
    /\ pc[t] = "idle"
    /\ \E r \in WideRequests : req' = [req EXCEPT ![t] = r]
    /\ pc' = [pc EXCEPT ![t] = "metrics"]
    /\ stack' = [stack EXCEPT ![t] = <<"metrics">>]
    /\ UNCHANGED <<config, now, mu, clients, sweepVars, pass, ctxUser, resp, hdrs,
                   code, calls, metricVars, limVars, serveVars, movieVars>>

TickChain ==
    /\ now < MaxChainTicks * Minute
    /\ now' = now + Minute
    /\ UNCHANGED <<config, mu, clients, sweepVars, reqVars, metricVars, limVars, serveVars, movieVars>>

NextChain ==
    \/ TickChain
    \/ \E t \in ChainTasks :
         \/ ServeAny(t)
         \/ Metrics(t)
         \/ MetricsCallAgain(t)
         \/ MetricsDone(t)
         \/ RecoverPanic(t)
         \/ Recovered(t)
         \/ EnableCORS(t)
         \/ RateLimit(t)
         \/ RlLock(t)
         \/ RlFind(t)
         \/ RlSeen(t)
         \/ RlAllow(t)
         \/ RlDeny(t)
         \/ RlExceeded(t)
         \/ RlAdmit(t)
         \/ Authenticate(t)
         \/ Router(t)
         \/ RequireAuthenticatedUser(t)
         \/ RequireActivatedUser(t)
         \/ RequirePermission(t)
         \/ Handler(t)

SpecChain == Init /\ [][NextChain]_vars

----------------------------------------------------------------------------
(* The rate limiter with one looping request task and the cleanup goroutine, *)
(* over a clock that runs past the three minutes of the sweep                *)

TickSweep ==
    /\ now < MaxSweepTicks * Minute
    /\ now' = now + Minute
    /\ UNCHANGED <<config, mu, clients, sweepVars, reqVars, metricVars, limVars, serveVars, movieVars>>

NextSweep ==
    \/ TickSweep
    \/ SweepWake
    \/ SweepLock
    \/ SweepScan
    \/ SweepUnlock
    \/ \E t \in ChainTasks :
         \/ ServeRateLimit(t)
         \/ RateLimit(t)
         \/ RlLock(t)
         \/ RlFind(t)
         \/ RlSeen(t)
         \/ RlAllow(t)
         \/ RlDeny(t)
         \/ RlExceeded(t)
         \/ RlAdmit(t)
         \/ StubNext(t)
         \/ StubReturned(t)

SpecSweep == Init /\ [][NextSweep]_vars

----------------------------------------------------------------------------
(* The rate limiter with two request tasks, one request each, and the cleanup *)
(* goroutine, over the clock that runs past the three minutes of the sweep;   *)
(* the limiter never refills (rate 0) and holds one token (burst 1), and a    *)
(* request that was admitted stays with the wrapped handler                   *)

InitEvict ==
    /\ config = [DefaultConfig EXCEPT !.rps = 0, !.burst = 1]
    /\ now = 0
    /\ InitServer
    /\ lim = NewLimiter(0, 0, 0)
    /\ limLog = <<>>

NextEvict ==
    \/ TickSweep
    \/ SweepWake
    \/ SweepLock
    \/ SweepScan
    \/ SweepUnlock
    \/ \E t \in Tasks :
         \/ ServeRateLimit(t)
         \/ RateLimit(t)
         \/ RlLock(t)
         \/ RlFind(t)
         \/ RlSeen(t)
         \/ RlAllow(t)
         \/ RlDeny(t)
         \/ RlExceeded(t)
         \/ RlAdmit(t)

SpecEvict == InitEvict /\ [][NextEvict]_vars

----------------------------------------------------------------------------
(* application.serve: the main goroutine in ListenAndServe, the goroutine    *)
(* that waits for a signal and shuts the server down, the connections of the *)
(* server, and a clock in seconds                                            *)

\* the process runs: no signal has ended it and serve() has not returned
Running == ~killed /\ mainPc # "returned"

\* a signal is delivered to the process: relayed to quit when it is registered
\* with signal.Notify (dropped when the buffer is full), its default action
\* otherwise
Signal(sig) ==
    /\ Running
    /\ IF sigPc # "notify" /\ sig \in Notified
       THEN /\ quit' = IF quit = <<>> THEN <<sig>> ELSE quit
            /\ UNCHANGED killed
       ELSE /\ killed' = TRUE
            /\ UNCHANGED quit
    /\ UNCHANGED <<chainVars, now, mainPc, sigPc, srvState, conns, deadline,
                   shutdownResult, ret, movieVars>>

\* quit := make(chan os.Signal, 1); signal.Notify(quit, syscall.SIGINT)
SigNotify ==
    /\ Running
    /\ sigPc = "notify"
    /\ sigPc' = "waitQuit"
    /\ UNCHANGED <<chainVars, now, mainPc, quit, srvState, conns, deadline,
                   shutdownResult, ret, killed, movieVars>>

\* s := <-quit; ctx with a 5-second timeout; srv.Shutdown(ctx) is called and
\* closes the listeners
SigReceive ==
    /\ Running
    /\ sigPc = "waitQuit"
    /\ quit # <<>>
    /\ quit' = Tail(quit)
    /\ deadline' = now + 5 * Second
    /\ srvState' = "closed"
    /\ sigPc' = "shutdown"
    /\ UNCHANGED <<chainVars, now, mainPc, conns, shutdownResult, ret, killed, movieVars>>

\* srv.Shutdown(ctx) returns: nil (or the error of closing the listeners) once
\* no connection is busy, the error of the context when its deadline has passed
ShutdownReturns ==
    /\ Running
    /\ sigPc = "shutdown"
    /\ \E r \in {NoError, CloseError, DeadlineExceeded} :
         /\ r \in {NoError, CloseError} => conns = 0
         /\ r = DeadlineExceeded => conns > 0 /\ now >= deadline
         /\ shutdownResult' = r
    /\ sigPc' = "send"
    /\ UNCHANGED <<chainVars, now, mainPc, quit, srvState, conns, deadline, ret,
                   killed, movieVars>>

\* err := srv.ListenAndServe() is called: it fails to listen, or returns
\* ErrServerClosed at once when Shutdown was called before, or serves
Listen ==
    /\ Running
    /\ mainPc = "start"
    /\ \E ok \in BOOLEAN :
         IF srvState = "closed"
         THEN mainPc' = "waitShutdown" /\ UNCHANGED <<srvState, ret>>
         ELSE IF ok
         THEN mainPc' = "listening" /\ srvState' = "serving" /\ UNCHANGED ret
         ELSE mainPc' = "returned" /\ ret' = ListenError /\ UNCHANGED srvState
    /\ UNCHANGED <<chainVars, now, sigPc, quit, conns, deadline, shutdownResult,
                   killed, movieVars>>

\* ListenAndServe returns: ErrServerClosed after Shutdown was called, which
\* sends serve() to wait for shutdownError; any other error is returned
ListenReturns ==
    /\ Running
    /\ mainPc = "listening"
    /\ IF srvState = "closed"
       THEN mainPc' = "waitShutdown" /\ UNCHANGED ret
       ELSE mainPc' = "returned" /\ ret' = ListenError
    /\ UNCHANGED <<chainVars, now, sigPc, quit, srvState, conns, deadline,
                   shutdownResult, killed, movieVars>>

\* shutdownError <- srv.Shutdown(ctx) meets err = <-shutdownError, and serve()
\* returns err, or nil
ReceiveShutdown ==
    /\ Running
    /\ mainPc = "waitShutdown"
    /\ sigPc = "send"
    /\ ret' = shutdownResult
    /\ mainPc' = "returned"
    /\ sigPc' = "exit"
    /\ UNCHANGED <<chainVars, now, quit, srvState, conns, deadline, shutdownResult,
                   killed, movieVars>>

\* a connection of the serving server becomes busy
ConnOpen ==
    /\ Running
    /\ srvState = "serving"
    /\ conns < MaxConns
    /\ conns' = conns + 1
    /\ UNCHANGED <<chainVars, now, mainPc, sigPc, quit, srvState, deadline,
                   shutdownResult, ret, killed, movieVars>>

\* a busy connection becomes idle
ConnClose ==
    /\ Running
    /\ conns > 0
    /\ conns' = conns - 1
    /\ UNCHANGED <<chainVars, now, mainPc, sigPc, quit, srvState, deadline,
                   shutdownResult, ret, killed, movieVars>>

TickServe ==
    /\ Running
    /\ now < MaxServeSeconds * Second
    /\ now' = now + Second
    /\ UNCHANGED <<chainVars, serveVars, movieVars>>

NextServe ==
    \/ \E sig \in Signals : Signal(sig)
    \/ SigNotify
    \/ SigReceive
    \/ ShutdownReturns
    \/ Listen
    \/ ListenReturns
    \/ ReceiveShutdown
    \/ ConnOpen
    \/ ConnClose
    \/ TickServe

SpecServe == Init /\ [][NextServe]_vars

----------------------------------------------------------------------------
(* MovieModel: two clients that Get a movie, change it and Update it, and *)
(* may Delete it                                                          *)

\* MovieModel.Get(id): a Movie struct with the stored fields, or
\* ErrRecordNotFound (without a query for an id below 1)
MovieGet(e) ==
    /\ editor[e].pc = "idle"
    /\ \E id \in MovieIDs \cup {0} :
         IF id < 1 \/ movies[id] = NoMovie
         THEN editor' = [editor EXCEPT ![e] = [IdleEditor EXCEPT !.err = ErrRecordNotFound]]
         ELSE editor' = [editor EXCEPT ![e] =
                           [pc |-> "edit", id |-> id, movie |-> movies[id],
                            read |-> movies[id].version, err |-> NoError]]
    /\ UNCHANGED <<chainVars, now, serveVars, movies>>

\* the caller changes fields of its Movie struct
MovieEdit(e) ==
    /\ editor[e].pc = "edit"
    /\ \E title \in Titles :
         editor' = [editor EXCEPT ![e].movie.title = title, ![e].pc = "update"]
    /\ UNCHANGED <<chainVars, now, serveVars, movies>>

\* UPDATE ... WHERE id = $5, without the version
MovieUpdateAnyVersion(e) ==
    /\ editor[e].pc = "update"
    /\ LET id == editor[e].id
           m == editor[e].movie
       IN  /\ IF movies[id] = NoMovie THEN TRUE ELSE movies[id].version < MaxVersion
           /\ \E dbErr \in BOOLEAN :
                IF dbErr
                THEN /\ editor' = [editor EXCEPT ![e].pc = "done", ![e].err = DBError]
                     /\ UNCHANGED movies
                ELSE IF movies[id] # NoMovie
                THEN /\ movies' = [movies EXCEPT ![id] =
                                     [title |-> m.title, version |-> movies[id].version + 1]]
                     /\ editor' = [editor EXCEPT ![e].pc = "done", ![e].err = NoError,
                                      ![e].movie.version = movies[id].version + 1]
                ELSE /\ editor' = [editor EXCEPT ![e].pc = "done", ![e].err = ErrEditConflict]
                     /\ UNCHANGED movies
    /\ UNCHANGED <<chainVars, now, serveVars>>

\* MovieModel.Update(movie): UPDATE movies SET ..., version = version + 1
\* WHERE id = $5 AND version = $6 RETURNING version, scanned into movie.Version;
\* sql.ErrNoRows becomes ErrEditConflict, any other error is returned as it is
MovieUpdate(e) ==
    /\ editor[e].pc = "update"
    /\ LET id == editor[e].id
           m == editor[e].movie
       IN  /\ IF movies[id] = NoMovie THEN TRUE ELSE movies[id].version < MaxVersion
           /\ \E dbErr \in BOOLEAN :
                IF dbErr
                THEN /\ editor' = [editor EXCEPT ![e].pc = "done", ![e].err = DBError]
                     /\ UNCHANGED movies
                ELSE IF movies[id] # NoMovie /\ movies[id].version = m.version
                THEN /\ movies' = [movies EXCEPT ![id] =
                                     [title |-> m.title, version |-> movies[id].version + 1]]
                     /\ editor' = [editor EXCEPT ![e].pc = "done", ![e].err = NoError,
                                      ![e].movie.version = movies[id].version + 1]
                ELSE /\ editor' = [editor EXCEPT ![e].pc = "done", ![e].err = ErrEditConflict]
                     /\ UNCHANGED movies
    /\ UNCHANGED <<chainVars, now, serveVars>>

\* MovieModel.Delete(id): the row is deleted, or ErrRecordNotFound when no row
\* was affected
MovieDelete(e) ==
    /\ editor[e].pc = "idle"
    /\ \E id \in MovieIDs :
         IF movies[id] = NoMovie
         THEN /\ editor' = [editor EXCEPT ![e] = [IdleEditor EXCEPT !.err = ErrRecordNotFound]]
              /\ UNCHANGED movies
         ELSE /\ movies' = [movies EXCEPT ![id] = NoMovie]
              /\ editor' = [editor EXCEPT ![e] = [IdleEditor EXCEPT !.err = NoError]]
    /\ UNCHANGED <<chainVars, now, serveVars>>

\* the caller is done with the result of Update
MovieDone(e) ==
    /\ editor[e].pc = "done"
    /\ editor' = [editor EXCEPT ![e] = IdleEditor]
    /\ UNCHANGED <<chainVars, now, serveVars, movies>>

NextMovies ==
    \E e \in Editors :
      \/ MovieGet(e)
      \/ MovieEdit(e)
      \/ MovieUpdate(e)
      \/ MovieDelete(e)
      \/ MovieDone(e)

SpecMovies == Init /\ [][NextMovies]_vars

----------------------------------------------------------------------------
(* The rate limiter with two looping request tasks and the cleanup goroutine *)
(* under fair scheduling: a goroutine that can run does run, and a goroutine *)
(* blocked in mu.Lock() gets the mutex when it is released again and again   *)
(* (sync.Mutex hands the lock to a starving waiter). Nothing is assumed of   *)
(* the arrival of requests, of the wrapped handler or of the clock. The     *)
(* limiter is enabled with a burst of one, so that requests are both         *)
(* admitted and denied.                                                      *)

InitFair ==
    /\ Init
    /\ config = [DefaultConfig EXCEPT !.burst = 1]

TickFair ==
    /\ now < MaxFairTicks * Minute
    /\ now' = now + Minute
    /\ UNCHANGED <<config, mu, clients, sweepVars, reqVars, metricVars, limVars, serveVars, movieVars>>

NextFair ==
    \/ TickFair
    \/ SweepWake
    \/ SweepLock
    \/ SweepScan
    \/ SweepUnlock
    \/ \E t \in Tasks :
         \/ ServeRateLimit(t)
         \/ RateLimit(t)
         \/ RlLock(t)
         \/ RlFind(t)
         \/ RlSeen(t)
         \/ RlAllow(t)
         \/ RlDeny(t)
         \/ RlExceeded(t)
         \/ RlAdmit(t)
         \/ StubNext(t)
         \/ StubReturned(t)

Fairness ==
    /\ WF_vars(SweepWake)
    /\ SF_vars(SweepLock)
    /\ WF_vars(SweepScan)
    /\ WF_vars(SweepUnlock)
    /\ \A t \in Tasks :
         /\ SF_vars(RlLock(t))
         /\ WF_vars(RlFind(t))
         /\ WF_vars(RlSeen(t))
         /\ WF_vars(RlAllow(t))
         /\ WF_vars(RlDeny(t))
         /\ WF_vars(RlAdmit(t))

SpecFair == InitFair /\ [][NextFair]_vars /\ Fairness

----------------------------------------------------------------------------
(* Properties *)

Range(f) == { f[x] : x \in DOMAIN f }

\* the request is a preflight the CORS middleware answers itself
AnsweredByCORS(r) == Trusted(r) /\ r.preflight

\* C1: a request that passes every gate has its resource handler invoked exactly
\* once: never more than once at any moment, and exactly once when the request is
\* finished and was answered by the handler.
C1_HandlerInvokedOnce ==
    \A t \in Tasks :
        /\ calls[t].handler <= 1
        /\ (pc[t] = "done" /\ Sent(t) = StatusOK /\ ~AnsweredByCORS(req[t]))
              => calls[t].handler = 1

\* the order of the spec, outermost first
Order == <<"metrics", "recoverPanic", "enableCORS", "rateLimit", "authenticate", "router">>
Gates == <<"requireAuthenticatedUser", "requireActivatedUser", "requirePermission">>

\* the stages that must be active when control is at position p
Enclosing(p, r) ==
    CASE p \in Range(Order) ->
           SubSeq(Order, 1, CHOOSE k \in 1..Len(Order) : Order[k] = p)
      [] p \in {"rlLock", "rlFind", "rlSeen", "rlAllow", "rlAdmit", "rlDeny", "rlExceeded"} ->
           SubSeq(Order, 1, 4)
      [] p \in Range(Gates) ->
           Order \o SubSeq(Gates, 1, CHOOSE k \in 1..Len(Gates) : Gates[k] = p)
      [] p = "handler" ->
           Order \o (IF Routes[r.route].gated THEN Gates ELSE <<>>) \o <<"handler">>
      [] p = "panic" -> SubSeq(Order, 1, 2)
      [] p = "returned" -> SubSeq(Order, 1, 1)
      [] OTHER -> <<>>

\* C2: a stage is entered only from the stage outside it, in the order metrics,
\* panic recovery, CORS, rate limiting, credential resolution, route dispatch; the
\* authorization gate runs only with a user in the request context and the handler
\* of a gated route only inside the gate.
C2_StageOrder ==
    \A t \in Tasks :
        /\ stack[t] = Enclosing(pc[t], req[t])
        /\ pc[t] \in Range(Gates) => ctxUser[t] # NoUser
        /\ (pc[t] = "handler" /\ Routes[req[t].route].gated) =>
              /\ ctxUser[t] \in DOMAIN Users
              /\ Users[ctxUser[t]].activated
              /\ Routes[req[t].route].code \in Users[ctxUser[t]].permissions

\* the handler of a gated route runs, in the second call of the chain
C2_Witness ==
    \E t \in Tasks :
        pc[t] = "handler" /\ Routes[req[t].route].gated /\ pass[t] = 2

\* the task is between mu.Lock() and mu.Unlock()
InSection(t) == pc[t] \in {"rlFind", "rlSeen", "rlAllow", "rlAdmit", "rlDeny"}
SweepInSection == sweepPc \in {"scan", "unlock"}

\* C3: at most one of the request tasks and the sweep is inside its critical
\* section on the client map.
C3_MutualExclusion ==
    /\ \A t, u \in Tasks : InSection(t) /\ InSection(u) => t = u
    /\ \A t \in Tasks : ~(InSection(t) /\ SweepInSection)

\* a task is in its section while another task and the sweep wait for the lock
C3_Witness ==
    \E t, u \in Tasks :
        /\ pc[t] = "rlSeen"
        /\ pc[u] = "rlLock"
        /\ sweepPc = "lock"

\* C4: a request task holds the lock only between Lock and Unlock in rateLimit:
\* never while the next stage or the handler runs, nor while the 429 is written.
C4_LockReleased ==
    \A t \in Tasks : mu = t => InSection(t)

\* a handler is running while another task is inside the critical section
C4_Witness ==
    \E t, u \in Tasks :
        /\ pc[t] = "handler"
        /\ pc[u] = "rlAllow"
        /\ mu = u

\* C5: every limiter of the registry holds between 0 tokens and the configured
\* burst.
C5_TokensInRange ==
    \A ip \in IPs :
        clients[ip] # NoClient =>
            /\ clients[ip].limiter.tokens >= 0
            /\ clients[ip].limiter.tokens <= config.burst * Token

\* after time has passed, one bucket is empty and the other is full
C5_Witness ==
    /\ now > 0
    /\ \E ip, other \in IPs :
           /\ clients[ip] # NoClient /\ clients[other] # NoClient
           /\ clients[ip].limiter.tokens = 0
           /\ clients[other].limiter.tokens = config.burst * Token
           /\ clients[other].limiter.last > 0

\* the bucket of l refilled up to instant t, as the limiter is meant to refill it
Refilled(l, t) ==
    LET more == l.tokens + (t - l.last) * l.limit
    IN  IF more > l.burst * Token THEN l.burst * Token ELSE more

\* C6: a call of Allow() refills the bucket by elapsed * rate, capped at the burst,
\* and sets the refill instant to now; with at least one token it takes exactly one
\* and allows, otherwise it denies and leaves the refilled bucket as it is.
C6_AllowStep ==
    [][ limLog' # limLog =>
          /\ lim'.last = now
          /\ lim'.limit = lim.limit /\ lim'.burst = lim.burst
          /\ IF Refilled(lim, now) >= Token
             THEN /\ limLog'[Len(limLog')].ok
                  /\ lim'.tokens = Refilled(lim, now) - Token
             ELSE /\ ~limLog'[Len(limLog')].ok
                  /\ lim'.tokens = Refilled(lim, now) ]_vars

\* a denied call has left a refilled fraction of a token in the bucket
C6_Witness ==
    /\ limLog # <<>>
    /\ ~limLog[Len(limLog)].ok
    /\ limLog[Len(limLog)].at > 0
    /\ lim.tokens > 0 /\ lim.tokens < Token
    /\ lim.last = now

\* the calls admitted at the instants from..from + 1 s
AdmittedWithin(from) ==
    { i \in 1..Len(limLog) :
        limLog[i].ok /\ limLog[i].at >= from /\ limLog[i].at <= from + Second }

\* C7: in any window of one second the limiter admits at most burst + rate calls.
C7_WindowBound ==
    \A i \in 1..Len(limLog) :
        Cardinality(AdmittedWithin(limLog[i].at)) <= config.burst + config.rps

\* a window of one second in which burst + rate calls were admitted, with a denial
C7_Witness ==
    /\ config.rps > 0
    /\ \E i \in 1..Len(limLog) :
          Cardinality(AdmittedWithin(limLog[i].at)) = config.burst + config.rps
    /\ \E i \in 1..Len(limLog) : ~limLog[i].ok

\* the first n calls were made at instant `first`, any others half a second later
CalledAt(n, first) ==
    \A i \in 1..Len(limLog) :
        limLog[i].at = (IF i <= n THEN first ELSE first + Second \div 2)

\* C8: with the default rate 2/s and burst 4, of five immediate calls on a new
\* limiter the first four are allowed and the fifth denied; of the calls made half
\* a second later exactly the first is allowed.
C8_DefaultBurst ==
    (config = DefaultConfig /\ CalledAt(5, 0)) =>
        \A i \in 1..Len(limLog) : limLog[i].ok <=> i \in {1, 2, 3, 4, 6}

\* five immediate calls and two calls half a second later
C8_Witness ==
    config = DefaultConfig /\ CalledAt(5, 0) /\ Len(limLog) = 7

\* C9: with rate 0 the limiter admits the first burst calls and denies every later
\* call, whatever time has passed.
C9_ZeroRate ==
    config.rps = 0 =>
        \A i \in 1..Len(limLog) : limLog[i].ok <=> i <= config.burst

\* with rate 0, a call more than a minute after the burst was used up is denied
C9_Witness ==
    /\ config.rps = 0
    /\ Len(limLog) > config.burst
    /\ limLog[Len(limLog)].at > limLog[config.burst].at + Minute
    /\ ~limLog[Len(limLog)].ok

\* C10: a request the limiter has denied is answered with 429, and no later stage
\* is invoked for it: the 429 is the status sent, no user was put in the request
\* context and the handler was not invoked.
C10_DeniedIs429 ==
    \A t \in Tasks :
        StatusTooManyRequests \in Range(resp[t]) =>
            /\ Sent(t) = StatusTooManyRequests
            /\ calls[t].handler = 0

\* the positions of a request task inside the enabled rate limiter
RlPcs == {"rlLock", "rlFind", "rlSeen", "rlAllow", "rlAdmit", "rlDeny", "rlExceeded"}

\* C11: with rate limiting disabled in the configuration, every step leaves the
\* client registry as it was, no request task takes the mutex, enters the
\* limiter or calls Allow(), a request that leaves the rate-limit stage goes to
\* the next stage with nothing written, and no 429 is ever written.
C11_DisabledPassesOn ==
    [][~config.enabled =>
         /\ clients' = clients
         /\ \A t \in Tasks :
              /\ mu' # t
              /\ pc'[t] \notin RlPcs
              /\ calls'[t].allow = calls[t].allow
              /\ StatusTooManyRequests \notin Range(resp'[t])
              /\ (pc[t] = "rateLimit" /\ pc'[t] # "rateLimit") =>
                    /\ pc'[t] = NextOf("rateLimit")
                    /\ resp'[t] = resp[t]]_vars

\* with the limiter disabled, a request whose RemoteAddr does not parse has
\* passed the rate-limit stage and was answered by its handler
C11_Witness ==
    /\ ~config.enabled
    /\ \E t \in Tasks :
         /\ req[t].addr = BadAddr
         /\ pc[t] = "done"
         /\ Sent(t) = StatusOK
         /\ calls[t].handler > 0

\* C12: a request of client c in the enabled rate limiter finds or creates the
\* entry of c (a new entry has the configured rate and burst, an existing entry
\* is kept as it is), sets its lastSeen to the current instant, and from then
\* until the mutex is released, admitted or denied, the entry stays in the
\* registry with that lastSeen and the same limiter parameters.
C12_EntryOfClient ==
    [][\A t \in Tasks :
         LET a == req[t].addr IN
         /\ (pc[t] = "rlFind" /\ pc'[t] = "rlSeen") =>
               IF clients[a] = NoClient
               THEN /\ clients'[a] # NoClient
                    /\ clients'[a].limiter.limit = config.rps
                    /\ clients'[a].limiter.burst = config.burst
                    /\ clients'[a].limiter.tokens = config.burst * Token
               ELSE clients'[a] = clients[a]
         /\ (pc[t] = "rlSeen" /\ pc'[t] # "rlSeen") =>
               /\ pc'[t] = "rlAllow"
               /\ clients'[a].lastSeen = now
               /\ clients'[a].limiter = clients[a].limiter
         /\ (pc[t] = "rlAllow" /\ pc'[t] # "rlAllow") =>
               /\ pc'[t] \in {"rlAdmit", "rlDeny"}
               /\ clients'[a] # NoClient
               /\ clients'[a].lastSeen = clients[a].lastSeen
               /\ clients'[a].limiter.limit = clients[a].limiter.limit
               /\ clients'[a].limiter.burst = clients[a].limiter.burst
         /\ (pc[t] \in {"rlAdmit", "rlDeny"} /\ pc'[t] # pc[t]) =>
               /\ clients[a] # NoClient
               /\ clients' = clients]_vars

\* a request is denied at a later instant than its client's first request, and
\* the entry of the client carries the instant of the denied request
C12_Witness ==
    \E t \in Tasks :
      /\ pc[t] = "rlDeny"
      /\ now > 0
      /\ clients[req[t].addr] # NoClient
      /\ clients[req[t].addr].lastSeen = now

\* C13: with concurrent requests of distinct clients and no eviction due, a step
\* of a request of client c changes no entry but that of c, an entry once stored
\* stays in the registry, and every request that has passed the lookup has the
\* entry of its client in the registry.
C13_NoLostEntry ==
    [][/\ \A t \in Tasks :
            (pc[t] \in RlPcs /\ pc'[t] # pc[t]) =>
               \A ip \in IPs \ {req[t].addr} : clients'[ip] = clients[ip]
       /\ \A ip \in IPs :
            /\ (clients[ip] # NoClient /\ now - clients[ip].lastSeen <= 3 * Minute)
                  => clients'[ip] # NoClient
            /\ clients'[ip] # clients[ip] =>
                  \/ sweepPc = "scan" /\ sweepPc' = "unlock"
                  \/ \E t \in Tasks : /\ req[t].addr = ip
                                       /\ mu = t
                                       /\ pc[t] \in {"rlFind", "rlSeen", "rlAllow"}
                                       /\ pc'[t] # pc[t]
       /\ now' <= 3 * Minute =>
            \A t \in Tasks :
              pc'[t] \in {"rlSeen", "rlAllow", "rlAdmit", "rlDeny", "rlExceeded"} =>
                 clients'[req'[t].addr] # NoClient]_vars

\* two requests of distinct clients are in the rate limiter at once, one inside
\* the critical section and one waiting for the mutex, and both clients have
\* their entry
C13_Witness ==
    /\ \A ip \in IPs : clients[ip] # NoClient
    /\ \E t, u \in Tasks :
         /\ req[t].addr # req[u].addr
         /\ pc[t] = "rlAllow"
         /\ pc[u] = "rlLock"

\* C14: a sweep removes exactly the entries last seen more than three minutes
\* before it runs and leaves every other entry as it is, and no step other than
\* the scan of the sweep removes an entry.
C14_SweepEvicts ==
    [][\A ip \in IPs :
         /\ (sweepPc = "scan" /\ sweepPc' = "unlock") =>
               clients'[ip] = IF /\ clients[ip] # NoClient
                                 /\ now - clients[ip].lastSeen > 3 * Minute
                              THEN NoClient ELSE clients[ip]
         /\ (clients[ip] # NoClient /\ clients'[ip] = NoClient) =>
               /\ sweepPc = "scan" /\ sweepPc' = "unlock"
               /\ now - clients[ip].lastSeen > 3 * Minute]_vars

\* the entry of a client whose admitted request is still with the wrapped
\* handler has been swept
C14_Witness ==
    /\ config.enabled
    /\ sweepPc = "unlock"
    /\ \E t \in Tasks :
         /\ pc[t] = NextOf("rateLimit")
         /\ clients[req[t].addr] = NoClient

\* C15: under fair scheduling the mutex is always released again, a sweep whose
\* sleep has elapsed takes the mutex, scans and goes back to sleep, the cleanup
\* goroutine never leaves its loop, and every request waiting for the mutex gets
\* its admit/deny decision.
C15_LockProgress ==
    /\ [](sweepPc \in {"sleep", "lock", "scan", "unlock"})
    /\ (mu # NoTask) ~> (mu = NoTask)
    /\ (sweepPc = "sleep" /\ now >= wakeAt) ~> (sweepPc = "scan")
    /\ (sweepPc = "scan") ~> (sweepPc = "sleep" /\ wakeAt > now)
    /\ \A t \in Tasks : (pc[t] = "rlLock") ~> (pc[t] \in {"rlAdmit", "rlDeny"})

\* the sweep holds the mutex while both request tasks wait for it
C15_Witness ==
    /\ mu = Sweeper
    /\ \A t \in Tasks : pc[t] = "rlLock"

\* the header has two fields, the first of them "Bearer", and a token of the
\* right length
WellFormed(h) == Len(h) = 2 /\ h[1] = "Bearer" /\ ValidTokenPlaintext(h[2])

\* the records of the token store a presented token is the plaintext of
Matching(tok) == { k \in TokenStore : k.plaintext = tok }

\* the records an authentication may rest on at the current instant
Live(tok) == { k \in Matching(tok) : k.scope = "authentication" /\ k.expiry > now }

\* task t takes the step of the credential verifier
AuthStep(t) == pc[t] = "authenticate" /\ pc'[t] # "authenticate"

\* the step of t writes the one status s and returns to the caller
Rejects(t, s) == resp'[t] = Append(resp[t], s) /\ pc'[t] = "returned"

\* C16: a request without an Authorization header leaves the credential
\* verifier for the next stage with the anonymous user in its context, nothing
\* written and the token store not queried.
C16_NoHeaderAnonymous ==
    [][\A t \in Tasks :
         (AuthStep(t) /\ req[t].auth = NoHeader) =>
            /\ ctxUser'[t] = AnonymousUser
            /\ pc'[t] = NextOf("authenticate")
            /\ resp'[t] = resp[t]
            /\ calls'[t].tokenLookups = calls[t].tokenLookups]_vars

\* a request without credentials has reached the route-level check as the
\* anonymous user
C16_Witness ==
    \E t \in Tasks :
      /\ req[t].auth = NoHeader
      /\ pc[t] = "requireAuthenticatedUser"
      /\ ctxUser[t] = AnonymousUser
      /\ calls[t].tokenLookups = 0
      /\ resp[t] = <<>>

\* C17: a non-empty Authorization header that is not "Bearer" and one token of
\* the right length is answered 401 by the credential verifier, which returns
\* without querying the token store, setting a user or invoking the next stage.
C17_MalformedRejected ==
    [][\A t \in Tasks :
         (AuthStep(t) /\ req[t].auth # NoHeader /\ ~WellFormed(req[t].auth)) =>
            /\ Rejects(t, StatusUnauthorized)
            /\ ctxUser'[t] = ctxUser[t]
            /\ calls'[t] = calls[t]]_vars

\* a header with the scheme in lower case and a live token was answered 401
\* with no lookup
C17_Witness ==
    \E t \in Tasks :
      /\ req[t].auth = <<"bearer", TokAlice>>
      /\ pc[t] = "returned"
      /\ resp[t] = <<StatusUnauthorized>>
      /\ calls[t].tokenLookups = 0

\* C18: the credential verifier answers a malformed header and a well-formed
\* token no live record matches in the same way, provided the lookup itself
\* does not fail: the one status 401 through the same response, the same
\* headers added, no user set and the next stage not invoked.
C18_SameRejection ==
    [][\A t \in Tasks :
         LET h == req[t].auth IN
         (/\ AuthStep(t)
          /\ h # NoHeader
          /\ ~WellFormed(h) \/ Live(h[2]) = {}
          /\ resp'[t] # Append(resp[t], StatusInternalServerError)) =>
            /\ Rejects(t, StatusUnauthorized)
            /\ hdrs'[t] = hdrs[t] \cup {"Vary: Authorization"}
            /\ ctxUser'[t] = ctxUser[t]
            /\ calls'[t].handler = calls[t].handler]_vars

\* two requests that differ in their header only, one "Basic abc" and one a
\* bearer token of no record, have been rejected with equal responses
C18_Witness ==
    \E t, u \in Tasks :
      /\ req[t].auth = <<"Basic", "abc">>
      /\ req[u] = [req[t] EXCEPT !.auth = Bearer(TokUnknown)]
      /\ pc[t] = "returned" /\ pc[u] = "returned"
      /\ pass[t] = 1 /\ pass[u] = 1
      /\ calls[t].tokenLookups = 0 /\ calls[u].tokenLookups = 1
      /\ resp[t] = <<StatusUnauthorized>>
      /\ resp[u] = resp[t]
      /\ hdrs[u] = hdrs[t]

\* C19: a user other than the anonymous one enters the request context only in
\* the step of the credential verifier, and only as the owner of a record of
\* scope "authentication", not expired, that the presented token matches; a
\* token whose records are all expired or of another scope is answered 401
\* unless the lookup itself fails.
C19_OnlyLiveAuthenticationToken ==
    [][\A t \in Tasks :
         LET h == req[t].auth IN
         /\ (ctxUser'[t] # ctxUser[t] /\ ctxUser'[t] \notin {NoUser, AnonymousUser}) =>
               /\ AuthStep(t)
               /\ WellFormed(h)
               /\ \E k \in Live(h[2]) : ctxUser'[t] = k.user
         /\ (/\ AuthStep(t)
             /\ h # NoHeader
             /\ WellFormed(h)
             /\ Matching(h[2]) # {}
             /\ Live(h[2]) = {}
             /\ resp'[t] # Append(resp[t], StatusInternalServerError)) =>
               /\ Rejects(t, StatusUnauthorized)
               /\ ctxUser'[t] = ctxUser[t]]_vars

\* the token that expires after a minute was accepted for the first run of the
\* chain and, a minute later, answered 401 in the second
C19_Witness ==
    \E t \in Tasks :
      /\ req[t].auth = Bearer(TokExpiring)
      /\ calls[t].handler = 1
      /\ pass[t] = 2
      /\ pc[t] = "returned"
      /\ resp[t] = <<StatusOK, StatusUnauthorized>>

\* C20: on a permission-gated route the three checks run in the order
\* anonymous, activated, permission; the anonymous user is answered 401 by the
\* first, an inactive user 403 by the second, an activated user without the
\* code 403 by the third (after the 500 of a permission lookup that failed),
\* each of them returning at once; the permission store is consulted for
\* activated users only, and the handler of a gated route is invoked for an
\* activated user who holds the code only.
C20_GateOrder ==
    [][\A t \in Tasks :
         LET u == ctxUser[t]
             step == pc'[t] # pc[t]
             known == u \in DOMAIN Users
         IN
         /\ (step /\ pc'[t] = "requireAuthenticatedUser") => pc[t] = "router"
         /\ (step /\ pc'[t] = "requireActivatedUser") =>
               pc[t] = "requireAuthenticatedUser" /\ known
         /\ (step /\ pc'[t] = "requirePermission") =>
               pc[t] = "requireActivatedUser" /\ known /\ Users[u].activated
         /\ (step /\ pc[t] = "requireAuthenticatedUser" /\ u = AnonymousUser) =>
               Rejects(t, StatusUnauthorized) /\ calls'[t] = calls[t]
         /\ (step /\ pc[t] = "requireActivatedUser" /\ known /\ ~Users[u].activated) =>
               Rejects(t, StatusForbidden) /\ calls'[t] = calls[t]
         /\ (/\ step /\ pc[t] = "requirePermission" /\ known
             /\ Routes[req[t].route].code \notin Users[u].permissions) =>
               /\ resp'[t] \in { Append(resp[t], StatusForbidden),
                                  resp[t] \o <<StatusInternalServerError, StatusForbidden>> }
               /\ pc'[t] = "returned"
               /\ calls'[t].handler = calls[t].handler
         /\ calls'[t].permLookups # calls[t].permLookups =>
               /\ pc[t] = "requirePermission"
               /\ known /\ Users[u].activated
         /\ (calls'[t].handler # calls[t].handler /\ Routes[req[t].route].gated) =>
               /\ pc[t] = "requirePermission"
               /\ known /\ Users[u].activated
               /\ Routes[req[t].route].code \in Users[u].permissions]_vars

\* an inactive user who holds the code of the route was answered 403 without
\* the permission store being consulted
C20_Witness ==
    \E t \in Tasks :
      /\ req[t].auth = Bearer(TokCarol)
      /\ Routes[req[t].route].code \in Users["carol"].permissions
      /\ pc[t] = "returned"
      /\ pass[t] = 1
      /\ resp[t] = <<StatusForbidden>>
      /\ calls[t].permLookups = 0
      /\ calls[t].handler = 0

\* C21: a panic of a stage inside recoverPanic never ends the serving task, and
\* a request in whose service a panic was recovered (the recovery has set
\* Connection: close) is answered 500.
C21_PanicAnswered500 ==
    \A t \in Tasks :
      /\ pc[t] # "crashed"
      /\ "Connection: close" \in hdrs[t] => Sent(t) = StatusInternalServerError

\* the request is a preflight of an origin of the trusted list
TrustedPreflight(r) == r.preflight /\ r.origin # "" /\ r.origin \in config.trustedOrigins

\* the positions of a request task from the rate limiter inwards
InnerPcs ==
    RlPcs \cup {"rateLimit", "authenticate", "router", "requireAuthenticatedUser",
                "requireActivatedUser", "requirePermission", "handler", "panic"}

\* C22: a preflight request of a trusted origin is answered 200 by the CORS
\* stage with the three Access-Control-Allow headers set, and its task never
\* enters the rate limiter or a stage behind it: no step of the task changes the
\* client registry, Allow() is not called and no token is looked up.
C22_PreflightAnswered ==
    [][\A t \in Tasks :
         TrustedPreflight(req'[t]) =>
            /\ pc'[t] \notin InnerPcs
            /\ calls'[t] = NoCalls
            /\ pc'[t] # pc[t] => clients' = clients
            /\ pc'[t] \in {"returned", "done"} =>
                  /\ Sent(t)' = StatusOK
                  /\ {"Access-Control-Allow-Origin", "Access-Control-Allow-Methods",
                      "Access-Control-Allow-Headers"} \subseteq hdrs'[t]]_vars

\* a trusted preflight has been served to the end while the other request has
\* its client in the registry
C22_Witness ==
    \E t \in Tasks :
      /\ TrustedPreflight(req[t])
      /\ pc[t] = "done"
      /\ Sent(t) = StatusOK
      /\ clients[req[t].addr] = NoClient
      /\ \E ip \in IPs : clients[ip] # NoClient

\* C23: once the CORS stage has run, Access-Control-Allow-Origin is set exactly
\* when the Origin of the request is an entry of the trusted list, and the stage
\* passes every request that is not a preflight of a trusted origin on to the
\* rate limiter, with nothing written.
C23_AllowOriginIffTrusted ==
    [][\A t \in Tasks :
         (pc[t] = "enableCORS" /\ pc'[t] # pc[t]) =>
            /\ "Access-Control-Allow-Origin" \in hdrs'[t]
                  <=> (req[t].origin # "" /\ req[t].origin \in config.trustedOrigins)
            /\ ~TrustedPreflight(req[t]) =>
                  /\ pc'[t] = "rateLimit"
                  /\ resp'[t] = resp[t]]_vars

\* a simple request of a trusted origin is with the rate limiter, annotated, and
\* nothing has been written
C23_Witness ==
    \E t \in Tasks :
      /\ req[t].origin = TrustedOrigin
      /\ ~req[t].preflight
      /\ pc[t] = "rateLimit"
      /\ "Access-Control-Allow-Origin" \in hdrs[t]
      /\ resp[t] = <<>>

\* the requests the metrics middleware has started to serve, and those it has
\* finished
Received == { t \in Tasks : pc[t] \notin {"idle", "metrics"} }
Completed == { t \in Tasks : pc[t] = "done" }

\* C24: no step decreases a counter, total responses sent never exceeds total
\* requests received, and the two counters are the number of requests received
\* and the number of requests completed: when all requests have completed, both
\* have grown by their number.
C24_CountersExact ==
    [][/\ totalRequestsReceived' >= totalRequestsReceived
       /\ totalResponsesSent' >= totalResponsesSent
       /\ totalResponsesSent' <= totalRequestsReceived'
       /\ totalRequestsReceived' = Cardinality(Received')
       /\ totalResponsesSent' = Cardinality(Completed')]_vars

\* two concurrent requests with different outcomes have completed
C24_Witness ==
    /\ Completed = Tasks
    /\ totalRequestsReceived = Cardinality(Tasks)
    /\ totalResponsesSent = Cardinality(Tasks)
    /\ \E t, u \in Tasks : Sent(t) = StatusTooManyRequests /\ Sent(u) = StatusOK

RECURSIVE SumOf(_)
SumOf(m) ==
    IF DOMAIN m = {} THEN 0
    ELSE LET k == CHOOSE x \in DOMAIN m : TRUE
         IN  m[k] + SumOf([x \in DOMAIN m \ {k} |-> m[x]])

\* the completed requests whose client was sent status k
CountOf(k) == Cardinality({ t \in Completed : Sent(t) = k })

\* C25: the completion of a request adds one to the entry of the count-by-status
\* map keyed by the status sent to its client and changes no other entry, so
\* that each entry counts the completed requests answered with its status and
\* the entries sum to total responses sent.
C25_ByStatusExact ==
    [][/\ \A t \in Tasks :
            (pc[t] # "done" /\ pc'[t] = "done") =>
               LET m == totalResponsesSentByStatus
                   before(k) == IF k \in DOMAIN m THEN m[k] ELSE 0
               IN  /\ DOMAIN totalResponsesSentByStatus' = DOMAIN m \cup {Sent(t)}
                   /\ \A k \in DOMAIN totalResponsesSentByStatus' :
                        totalResponsesSentByStatus'[k] =
                           before(k) + (IF k = Sent(t) THEN 1 ELSE 0)
       /\ \A k \in DOMAIN totalResponsesSentByStatus' :
            totalResponsesSentByStatus'[k] = CountOf(k)'
       /\ SumOf(totalResponsesSentByStatus') = totalResponsesSent']_vars

\* two requests answered with the same status have completed, and the entry of
\* that status counts both
C25_Witness ==
    /\ Completed = Tasks
    /\ \E k \in DOMAIN totalResponsesSentByStatus :
         /\ totalResponsesSentByStatus[k] = Cardinality(Tasks)
         /\ \A t \in Tasks : Sent(t) = k
         /\ k = StatusUnauthorized

\* C26: a request calls Allow() of its client's limiter at most once, and
\* exactly once when it has passed the enabled rate limiter and completed.
C26_AllowOncePerRequest ==
    \A t \in Tasks :
      /\ calls[t].allow <= 1
      /\ (pc[t] = "done" /\ config.enabled /\ AddrOk(req[t]) /\ ~TrustedPreflight(req[t]))
            => calls[t].allow = 1

\* C27: at most one status is written for a request, exactly one when the
\* request has completed, and a request whose permission lookup failed has the
\* 500 as its only response.
C27_OneResponse ==
    \A t \in Tasks :
      /\ Len(resp[t]) <= 1
      /\ pc[t] = "done" => Len(resp[t]) = 1

\* C28: the registry keeps nothing of a swept client: a request that finds no
\* entry for its client, swept or never seen, stores a limiter with the
\* configured rate and a full bucket as of the current instant, and the first
\* Allow() on a bucket that holds a token admits the request.
C28_EvictionForgets ==
    [][\A t \in Tasks :
         LET a == req[t].addr IN
         /\ (pc[t] = "rlFind" /\ pc'[t] # pc[t] /\ clients[a] = NoClient) =>
               clients'[a].limiter = [limit |-> config.rps, burst |-> config.burst,
                                      tokens |-> config.burst * Token, last |-> now]
         /\ (pc[t] = "rlAllow" /\ pc'[t] # pc[t]) =>
               (pc'[t] = "rlAdmit" <=> Advance(clients[a].limiter, now).tokens >= Token)]_vars

\* with rate 0 and burst 1, two requests of one client have both been admitted:
\* more admissions than burst + rate * elapsed, the entry of the first having
\* been swept before the second arrived
C28_Witness ==
    /\ config.rps = 0
    /\ \E t, u \in Tasks :
         /\ t # u
         /\ req[t].addr = req[u].addr
         /\ pc[t] = NextOf("rateLimit") /\ pc[u] = NextOf("rateLimit")
         /\ calls[t].allow = 1 /\ calls[u].allow = 1
         /\ Cardinality({t, u}) > config.burst + config.rps * (now \div Second)

\* C29: once serve() listens for signals, a SIGINT or SIGTERM never ends the
\* process but starts the shutdown; Shutdown is called with a deadline of five
\* seconds; and serve() returns either the error of ListenAndServe or, after
\* the result of Shutdown was received, that result.
C29_GracefulShutdown ==
    /\ killed => sigPc = "notify"
    /\ sigPc \in {"shutdown", "send", "exit"} =>
          srvState = "closed" /\ deadline <= now + 5 * Second
    /\ (mainPc = "returned" /\ ret # ListenError) =>
          /\ sigPc = "exit"
          /\ shutdownResult # NoResult
          /\ ret = shutdownResult

\* client e executes its Update
UpdateStep(e) == editor[e].pc = "update" /\ editor'[e].pc = "done"

\* C30: Update returns nil only when the stored version equals the version of
\* the caller's struct, and then the stored version grows by one, the caller's
\* fields are stored and the new version is in the caller's struct; it returns
\* ErrEditConflict exactly when the statement ran and no row of that version was
\* there, leaving the table as it is; and of two clients that read the same
\* version of a movie that is still there, and whose statements both ran,
\* exactly one updated it and the other got ErrEditConflict.
C30_OptimisticUpdate ==
    [][/\ \A e \in Editors :
            UpdateStep(e) =>
               LET id == editor[e].id
                   mine == editor[e].movie
                   stored == movies[id]
                   matches == IF stored = NoMovie THEN FALSE
                              ELSE stored.version = mine.version
               IN  /\ editor'[e].err \in {NoError, ErrEditConflict, DBError}
                   /\ editor'[e].err = NoError =>
                         /\ matches
                         /\ movies'[id] = [title |-> mine.title,
                                           version |-> stored.version + 1]
                         /\ editor'[e].movie.version = stored.version + 1
                   /\ editor'[e].err = ErrEditConflict => ~matches
                   /\ editor'[e].err # NoError =>
                         /\ movies' = movies
                         /\ editor'[e].movie = mine
                   /\ (matches /\ editor'[e].err # DBError) => editor'[e].err = NoError
       /\ \A e, f \in Editors :
            (/\ e # f
             /\ editor'[e].pc = "done" /\ editor'[f].pc = "done"
             /\ editor'[e].id = editor'[f].id
             /\ editor'[e].read = editor'[f].read
             /\ DBError \notin {editor'[e].err, editor'[f].err}) =>
               /\ ~(editor'[e].err = NoError /\ editor'[f].err = NoError)
               /\ movies'[editor'[e].id] # NoMovie =>
                     {editor'[e].err, editor'[f].err} = {NoError, ErrEditConflict}]_vars

\* two clients read version 1 and both updated: one stored its title as version
\* 2, the other got ErrEditConflict
C30_Witness ==
    \E e, f \in Editors :
      /\ editor[e].pc = "done" /\ editor[f].pc = "done"
      /\ editor[e].read = 1 /\ editor[f].read = 1
      /\ editor[e].err = NoError
      /\ editor[f].err = ErrEditConflict
      /\ editor[e].movie.title # editor[f].movie.title
      /\ movies[1] = [title |-> editor[e].movie.title, version |-> 2]

====
